---- MODULE Spec2Model ----
(***************************************************************************)
(* A model of the oerbservatory ingestion and export transforms:           *)
(*   sources/tess.py   vocabulary mapping (_get_resource_types) and the    *)
(*                     license normalizer (_get_license), with their       *)
(*                     process-wide counters and diagnostic lines;         *)
(*   sources/dalia.py  _process_size, _process_author, _convert, parse;    *)
(*   export/tess.py    export_tess, _from_dalia_dif13 and the upload loop. *)
(* Python strings are TLA+ strings; str.lower, str.strip, str.endswith and *)
(* str.removesuffix are computed character by character.  Python values of *)
(* mixed type (URIRef | str | None) are tagged records.                    *)
(***************************************************************************)
EXTENDS Integers, Sequences, FiniteSets, TLC

VARIABLES
    component,              \* which program of the repository is running
    diag,                   \* lines written with tqdm.write, in order
    unknown_resource_type,  \* Counter[str] of sources/tess.py
    rt_attributes,          \* argument of the last _get_resource_types call
    rt_result,              \* its outcome, until the caller has taken it
    license_counter,        \* Counter[str] of sources/tess.py
    lic_attributes,         \* argument of the last _get_license call
    lic_result,             \* its outcome, until the caller has taken it
    size_x,                 \* argument of the last _process_size call
    size_result,            \* its outcome, until the caller has taken it
    author_e,               \* argument of the last _process_author call
    author_result,          \* its outcome, until the caller has taken it
    dif13_oers,             \* the records given to _from_dalia_dif13, one by one
    dif13_results,          \* the outcome of each, until the caller has taken them
    parse_rows,             \* the rows of the curation sheet given to parse
    parse_result,           \* the outcome of parse, until the caller has taken it
    main_pc,                \* where main of export/tess.py stands
    test,                   \* its --test flag
    functions,              \* its list of (source, space) pairs
    fi,                     \* position of its outer loop in functions
    resources,              \* what func() returned for the current source
    ri,                     \* position of its inner loop in resources
    posted,                 \* the client.post calls issued, in order
    main_raised,            \* the exception that ended main, "" when none
    cli_pc,                 \* where main of sources/cli.py stands
    cli_fi,                 \* position of its loop in its functions
    cli_resources,          \* its list resources
    cli_key,                \* its key for the current source
    specific,               \* what f() returned for the current source
    written,                \* the list each writer was given, by path of the file
    cli_lines               \* the lines of tqdm.write and click.echo, in order

tessVars == <<diag, unknown_resource_type, rt_attributes, rt_result,
              license_counter, lic_attributes, lic_result>>

sizeVars == <<size_x, size_result>>

authorVars == <<author_e, author_result>>

daliaVars == <<dif13_oers, dif13_results, parse_rows, parse_result>>

exportVars == <<main_pc, test, functions, fi, resources, ri, posted, main_raised>>

cliVars == <<cli_pc, cli_fi, cli_resources, cli_key, specific, written, cli_lines>>

vars == <<component, tessVars, sizeVars, authorVars, daliaVars, exportVars, cliVars>>

\* what the TeSS mappers, _process_size, _process_author, the DALIA transforms
\* and the TeSS export leave alone
notTess == <<component, sizeVars, authorVars, daliaVars, exportVars, cliVars>>
notSize == <<component, tessVars, authorVars, daliaVars, exportVars, cliVars>>
notAuthor == <<component, tessVars, sizeVars, daliaVars, exportVars, cliVars>>
notDalia == <<component, tessVars, sizeVars, authorVars, exportVars, cliVars>>
notExport == <<component, tessVars, sizeVars, authorVars, daliaVars, cliVars>>
notCli == <<component, tessVars, sizeVars, authorVars, daliaVars, exportVars>>

----------------------------------------------------------------------------
(* Python values *)

None == [kind |-> "None"]
Str(s) == [kind |-> "str", value |-> s]
URIRef(ns, local) == [kind |-> "URIRef", ns |-> ns, local |-> local]

\* the outcome of a call: a returned value, or an exception
Return(v) == [called |-> TRUE, raised |-> "", value |-> v]
Raise(exc) == [called |-> TRUE, raised |-> exc, value |-> None]
\* no call is under way: nothing returned, with the empty value of the result's type
Idle(empty) == [called |-> FALSE, raised |-> "", value |-> empty]

\* a Counter is a function from its keys to positive counts; a missing key reads 0
EmptyCounter == [k \in {} |-> 0]
CounterGet(c, k) == IF k \in DOMAIN c THEN c[k] ELSE 0
CounterInc(c, k) == [x \in DOMAIN c \cup {k} |-> IF x = k THEN CounterGet(c, k) + 1 ELSE c[x]]

----------------------------------------------------------------------------
(* Python str methods *)

UPPERCASE == "ABCDEFGHIJKLMNOPQRSTUVWXYZ"
LOWERCASE == "abcdefghijklmnopqrstuvwxyz"
WHITESPACE == {" ", "\t", "\n", "\r", "\f"}

CharAt(s, i) == SubSeq(s, i, i)

RECURSIVE CharMap(_, _)
CharMap(from, to) ==
    IF from = "" THEN <<>>
    ELSE (CharAt(from, 1) :> CharAt(to, 1))
            @@ CharMap(SubSeq(from, 2, Len(from)), SubSeq(to, 2, Len(to)))

ToLower == CharMap(UPPERCASE, LOWERCASE)
ToUpper == CharMap(LOWERCASE, UPPERCASE)

LowerChar(c) == IF c \in DOMAIN ToLower THEN ToLower[c] ELSE c
UpperChar(c) == IF c \in DOMAIN ToUpper THEN ToUpper[c] ELSE c

RECURSIVE lower(_)
lower(s) == IF s = "" THEN "" ELSE LowerChar(CharAt(s, 1)) \o lower(SubSeq(s, 2, Len(s)))

RECURSIVE upper(_)
upper(s) == IF s = "" THEN "" ELSE UpperChar(CharAt(s, 1)) \o upper(SubSeq(s, 2, Len(s)))

RECURSIVE lstrip(_)
lstrip(s) ==
    IF s # "" /\ CharAt(s, 1) \in WHITESPACE THEN lstrip(SubSeq(s, 2, Len(s))) ELSE s

RECURSIVE rstrip(_)
rstrip(s) ==
    IF s # "" /\ CharAt(s, Len(s)) \in WHITESPACE THEN rstrip(SubSeq(s, 1, Len(s) - 1)) ELSE s

strip(s) == lstrip(rstrip(s))

endswith(s, suffix) ==
    Len(s) >= Len(suffix) /\ SubSeq(s, Len(s) - Len(suffix) + 1, Len(s)) = suffix

removesuffix(s, suffix) ==
    IF suffix # "" /\ endswith(s, suffix) THEN SubSeq(s, 1, Len(s) - Len(suffix)) ELSE s

\* a dict literal as a function: pairs <<key, value>>, a later pair winning
RECURSIVE DictOf(_)
DictOf(pairs) ==
    IF pairs = <<>> THEN <<>>
    ELSE LET n == Len(pairs)
         IN  (pairs[n][1] :> pairs[n][2]) @@ DictOf(SubSeq(pairs, 1, n - 1))

----------------------------------------------------------------------------
(* sources/tess.py: the vocabulary tables *)

RESOURCE_TYPE_MAP ==
    DictOf(<<
        <<"video", URIRef("SDO", "VideoObject")>>,
        <<"series of videos", URIRef("SDO", "VideoObject")>>,
        <<"youtube video", URIRef("SDO", "VideoObject")>>,
        <<"computer software", URIRef("SDO", "SoftwareSourceCode")>>,
        <<"coding", URIRef("SDO", "SoftwareSourceCode")>>,
        <<"scripts", URIRef("SDO", "SoftwareSourceCode")>>,
        <<"programming", URIRef("SDO", "SoftwareSourceCode")>>,
        <<"poster", URIRef("SDO", "Poster")>>,
        <<"workshop", URIRef("MODALIA", "Workshop")>>,
        <<"podcast", URIRef("SDO", "PodcastEpisode")>>,
        <<"slidedeck", URIRef("HCRT", "slide")>>,
        <<"slideshow", URIRef("HCRT", "slide")>>,
        <<"slides", URIRef("HCRT", "slide")>>,
        <<"slide deck / presentation", URIRef("HCRT", "slide")>>,
        <<"slides / presentation", URIRef("HCRT", "slide")>>,
        <<"slideck/ presentation", URIRef("HCRT", "slide")>>,
        <<"presentation", URIRef("HCRT", "slide")>>,
        <<"jupyter notebooks", URIRef("MODALIA", "CodeNotebook")>>,
        <<"jupyter notebook", URIRef("MODALIA", "CodeNotebook")>>,
        <<"blog post", None>>,
        <<"training materials", None>>,
        <<"examples", None>>,
        <<"documentation", None>>,
        <<"bioinformatics", None>>,
        <<"hands-on tutorial", None>>,
        <<"learning pathway", None>>,
        <<"tutorials", None>>,
        <<"handbook", None>>,
        <<"case studies", None>>,
        <<"implementation guidelines", None>>,
        <<"additional reading", None>>,
        <<"didactic activities", None>>,
        <<"mock data", None>>,
        <<"how-to guide", None>>,
        <<"online course", None>>,
        <<"online material", None>>,
        <<"education", None>>,
        <<"open educational resource", None>>,
        <<"tool", None>>,
        <<"toolkit", None>>,
        <<"e-learning + workshop", None>>,
        <<"pdf", None>>,
        <<"recording", None>>,
        <<"r shiny application", None>>,
        <<"free online course", None>>,
        <<"carpentries style curriculum", None>>,
        <<"training materials with mock data", None>>,
        <<"online modules", None>>,
        <<"hackathon", None>>,
        <<"vignette", None>>,
        <<"api reference", None>>,
        <<"educational materials", None>>,
        <<"exercise", None>>,
        <<"handout", None>>,
        <<"workflow", None>>,
        <<"installation instructions", None>>,
        <<"manual", None>>,
        <<"talk", None>>,
        <<"knowledgebase", None>>,
        <<"book", URIRef("BIBO", "book")>>,
        <<"notes", None>>,
        <<"computational biology", None>>,
        <<"computer science", None>>,
        <<"data science", None>>,
        <<"transcriptomics", None>>,
        <<"machine learning", None>>,
        <<"life sciences literature database", None>>,
        <<"life science literature database", None>>,
        <<"viralzone", None>>
    >>)

LICENSES ==
    DictOf(<<
        <<lower("CC-BY-1.0"), URIRef("SPDX_LICENSE", "CC-BY-1.0")>>,
        <<lower("CC-BY-2.0"), URIRef("SPDX_LICENSE", "CC-BY-2.0")>>,
        <<lower("CC-BY-3.0"), URIRef("SPDX_LICENSE", "CC-BY-3.0")>>,
        <<lower("CC-BY-4.0"), URIRef("SPDX_LICENSE", "CC-BY-4.0")>>,
        <<lower("CC-BY-SA-4.0"), URIRef("SPDX_LICENSE", "CC-BY-SA-4.0")>>,
        <<lower("CC-BY-ND-4.0"), URIRef("SPDX_LICENSE", "CC-BY-ND-4.0")>>,
        <<lower("CC-BY-ND-2.0"), URIRef("SPDX_LICENSE", "CC-BY-ND-2.0")>>,
        <<lower("CC-BY-NC-4.0"), URIRef("SPDX_LICENSE", "CC-BY-NC-4.0")>>,
        <<lower("CC-BY-NC-2.0"), URIRef("SPDX_LICENSE", "CC-BY-NC-2.0")>>,
        <<lower("CC-BY-NC-SA-3.0"), URIRef("SPDX_LICENSE", "CC-BY-NC-SA-3.0")>>,
        <<lower("CC-BY-NC-SA-4.0"), URIRef("SPDX_LICENSE", "CC-BY-NC-SA-4.0")>>,
        <<lower("CC-BY-NC-ND-3.0"), URIRef("SPDX_LICENSE", "CC-BY-NC-ND-3.0")>>,
        <<lower("CC-BY-NC-ND-4.0"), URIRef("SPDX_LICENSE", "CC-BY-NC-ND-4.0")>>,
        <<lower("CC0-1.0"), URIRef("SPDX_LICENSE", "CC0-1.0")>>,
        <<lower("MIT"), URIRef("SPDX_LICENSE", "MIT")>>,
        <<lower("gpl-2.0"), URIRef("SPDX_LICENSE", "GPL-2.0")>>,
        <<lower("gpl-3.0-only"), URIRef("SPDX_LICENSE", "GPL-3.0-only")>>,
        <<lower("gpl-3.0"), URIRef("SPDX_LICENSE", "GPL-3.0-or-later")>>,
        <<lower("agpl-3.0-only"), URIRef("SPDX_LICENSE", "AGPL-3.0-only")>>,
        <<lower("unlicense"), URIRef("SPDX_LICENSE", "Unlicense")>>,
        <<lower("Apache-2.0"), URIRef("SPDX_LICENSE", "Apache-2.0")>>,
        <<lower("BSD-3-Clause"), URIRef("SPDX_LICENSE", "BSD-3-Clause")>>,
        <<lower("Artistic-2.0"), URIRef("SPDX_LICENSE", "Artistic-2.0")>>,
        <<lower("AFL-3.0"), URIRef("SPDX_LICENSE", "AFL-3.0")>>,
        <<lower("ODC-By-1.0"), URIRef("SPDX_LICENSE", "ODC-By-1.0")>>,
        <<lower("WTFPL"), URIRef("SPDX_LICENSE", "WTFPL")>>
    >>)

\* dict.get(key): None when the key is absent
DictGet(d, k) == IF k \in DOMAIN d THEN d[k] ELSE None

\* Python truth of a looked-up value: None is false, a URIRef (a non-empty str) true
Truthy(v) == v.kind # "None"

----------------------------------------------------------------------------
(* sources/tess.py: _get_resource_types *)

\* the line of tqdm.write(click.style(f'"{resource_type}": None,', fg="red"))
ResourceTypeLine(resource_type) == "\"" \o resource_type \o "\": None,"

\* the else branch: report the value at its first occurrence, then count it
UnknownResourceTypeAlways(st, resource_type) ==
    [rv |-> st.rv,
     log |-> Append(st.log, ResourceTypeLine(resource_type)),
     counter |-> CounterInc(st.counter, resource_type)]

UnknownResourceType(st, resource_type) ==
    [rv |-> st.rv,
     log |-> IF CounterGet(st.counter, resource_type) = 0
             THEN Append(st.log, ResourceTypeLine(resource_type))
             ELSE st.log,
     counter |-> CounterInc(st.counter, resource_type)]

\* one iteration of the for loop over attributes.get("resource-type", [])
ResourceTypeStep(st, raw) ==
    LET resource_type == strip(lower(raw))
        nn == DictGet(RESOURCE_TYPE_MAP, resource_type)
    IN  IF Truthy(nn)
        THEN [st EXCEPT !.rv = Append(st.rv, nn)]
        ELSE UnknownResourceType(st, resource_type)

RECURSIVE ResourceTypeLoop(_, _)
ResourceTypeLoop(st, labels) ==
    IF labels = <<>> THEN st
    ELSE ResourceTypeLoop(ResourceTypeStep(st, Head(labels)), Tail(labels))

\* attributes is a dict; the result is the returned list with the new counter and log
_get_resource_types(attributes, counter, log) ==
    LET labels == IF "resource-type" \in DOMAIN attributes
                  THEN attributes["resource-type"] ELSE <<>>
        st == ResourceTypeLoop([rv |-> <<>>, log |-> log, counter |-> counter], labels)
    IN  [result |-> Return(st.rv), counter |-> st.counter, log |-> st.log]

----------------------------------------------------------------------------
(* sources/tess.py: _get_license *)

\* the line of tqdm.write(f"Missing license for {license_text}")
MissingLicenseLine(license_text) == "Missing license for " \o license_text

LicenseTextNoLower(raw) == strip(raw)

\* attributes["licence"].lower().strip()
LicenseText(raw) == strip(lower(raw))

\* the fall-through of _get_license: an unsupported text is counted and returned
UnknownLicenseAsNone(license_text, counter, log) ==
    [result |-> Return(None),
     counter |-> CounterInc(counter, license_text),
     log |-> IF license_text \notin DOMAIN counter
             THEN Append(log, MissingLicenseLine(license_text)) ELSE log]

UnknownLicense(license_text, counter, log) ==
    [result |-> Return(Str(license_text)),
     counter |-> CounterInc(counter, license_text),
     log |-> IF license_text \notin DOMAIN counter
             THEN Append(log, MissingLicenseLine(license_text)) ELSE log]

_get_license(attributes, counter, log) ==
    IF "licence" \notin DOMAIN attributes
    THEN [result |-> Raise("KeyError"), counter |-> counter, log |-> log]
    ELSE IF attributes["licence"].kind # "str"
    THEN [result |-> Raise("AttributeError"), counter |-> counter, log |-> log]
    ELSE LET license_text == LicenseText(attributes["licence"].value)
         IN  IF license_text = "notspecified"   \* "license_text is None" is never true here
             THEN [result |-> Return(None), counter |-> counter, log |-> log]
             ELSE IF license_text \in DOMAIN LICENSES
             THEN [result |-> Return(LICENSES[license_text]), counter |-> counter, log |-> log]
             ELSE UnknownLicense(license_text, counter, log)

----------------------------------------------------------------------------
(* Bounds and inputs of the TeSS vocabulary mappers *)

MaxCount == 2          \* a counter entry grows up to this value
MaxTypes == 2          \* labels in one material's "resource-type" list
MaxCaseLetters == 4    \* keys with at most this many letters get every case variant

\* Labels are drawn as spellings of lowercased, trimmed base labels.
MappedTypeBases == {"video"}
NullTypeBases == {"blog post"}
UnknownTypeBases == {"quiz", ""}
TypeBases == MappedTypeBases \cup NullTypeBases \cup UnknownTypeBases

Spellings(base) == {base, " " \o upper(base) \o "\t"}

RawTypeLabels == UNION {Spellings(b) : b \in TypeBases}

SeqsUpTo(S, n) == UNION {[1..k -> S] : k \in 0..n}

NoAttributes == [k \in {} |-> None]

ResourceTypeAttributes ==
    {NoAttributes}
        \cup {[k \in {"resource-type"} |-> labels] : labels \in SeqsUpTo(RawTypeLabels, MaxTypes)}

CounterWithin(c, n) == \A k \in DOMAIN c : c[k] <= n

InitSize ==
    /\ size_x = None
    /\ size_result = Idle(None)

InitAuthor ==
    /\ author_e = None
    /\ author_result = Idle(None)

InitDalia ==
    /\ dif13_oers = <<>>
    /\ dif13_results = Idle(<<>>)
    /\ parse_rows = <<>>
    /\ parse_result = Idle(<<>>)

InitExport ==
    /\ main_pc = "idle"
    /\ test = FALSE
    /\ functions = <<>>
    /\ fi = 1
    /\ resources = <<>>
    /\ ri = 1
    /\ posted = <<>>
    /\ main_raised = ""

InitCli ==
    /\ cli_pc = "idle"
    /\ cli_fi = 1
    /\ cli_resources = <<>>
    /\ cli_key = ""
    /\ specific = <<>>
    /\ written = <<>>
    /\ cli_lines = <<>>

InitOthers == InitSize /\ InitAuthor /\ InitDalia /\ InitExport /\ InitCli

InitTess ==
    /\ diag = <<>>
    /\ unknown_resource_type = EmptyCounter
    /\ rt_attributes = NoAttributes
    /\ rt_result = Idle(<<>>)
    /\ license_counter = EmptyCounter
    /\ lic_attributes = NoAttributes
    /\ lic_result = Idle(None)

\* get_tess_oers calls _get_resource_types on a material's attributes
GetResourceTypes ==
    /\ ~rt_result.called
    /\ \E attributes \in ResourceTypeAttributes :
        LET r == _get_resource_types(attributes, unknown_resource_type, diag)
        IN  /\ CounterWithin(r.counter, MaxCount)
            /\ rt_attributes' = attributes
            /\ rt_result' = r.result
            /\ unknown_resource_type' = r.counter
            /\ diag' = r.log
    /\ UNCHANGED <<notTess, license_counter, lic_attributes, lic_result>>

\* get_tess_oers puts the returned list into the record and goes on to the next material
TakeResourceTypes ==
    /\ rt_result.called
    /\ rt_attributes' = NoAttributes
    /\ rt_result' = Idle(<<>>)
    /\ UNCHANGED <<notTess, diag, unknown_resource_type,
                   license_counter, lic_attributes, lic_result>>

InitResourceTypes == component = "resource_types" /\ InitTess /\ InitOthers
NextResourceTypes == GetResourceTypes \/ TakeResourceTypes
SpecResourceTypes == InitResourceTypes /\ [][NextResourceTypes]_vars

\* helpers of the properties
RECURSIVE CountIn(_, _)
CountIn(seq, x) ==
    IF seq = <<>> THEN 0 ELSE (IF Head(seq) = x THEN 1 ELSE 0) + CountIn(Tail(seq), x)

IsPrefix(s, t) == Len(s) <= Len(t) /\ SubSeq(t, 1, Len(s)) = s

LabelsOf(attributes) ==
    IF "resource-type" \in DOMAIN attributes THEN attributes["resource-type"] ELSE <<>>

\* how many labels of the list are spellings of the base
RECURSIVE Occurrences(_, _)
Occurrences(labels, base) ==
    IF labels = <<>> THEN 0
    ELSE (IF Head(labels) \in Spellings(base) THEN 1 ELSE 0) + Occurrences(Tail(labels), base)

RtReturned == rt_result.called

\* C1: a label whose lowercased, trimmed form is mapped to None in RESOURCE_TYPE_MAP
\* is left out of the returned list, is never written as a diagnostic line and is
\* never counted in unknown_resource_type.
C1_NullMappedNotReported ==
    \A k \in DOMAIN RESOURCE_TYPE_MAP :
        RESOURCE_TYPE_MAP[k] = None =>
            /\ k \notin DOMAIN unknown_resource_type
            /\ CountIn(diag, ResourceTypeLine(k)) = 0
            /\ RtReturned => \A i \in DOMAIN rt_result.value : rt_result.value[i] # None

\* C2: over any sequence of calls, a value absent from RESOURCE_TYPE_MAP has exactly
\* one diagnostic line once it has occurred and none before, each call adds its
\* occurrences in that call to its counter entry, no call raises, and the returned
\* list holds only the identifiers of the labels that are mapped.
C2_UnknownState ==
    /\ rt_result.raised = ""
    /\ \A b \in UnknownTypeBases :
        CountIn(diag, ResourceTypeLine(b)) =
            (IF CounterGet(unknown_resource_type, b) > 0 THEN 1 ELSE 0)

C2_UnknownStep ==
    (~RtReturned /\ RtReturned') =>
        LET labels == LabelsOf(rt_attributes')
        IN  /\ IsPrefix(diag, diag')
            /\ \A b \in UnknownTypeBases :
                CounterGet(unknown_resource_type', b) =
                    CounterGet(unknown_resource_type, b) + Occurrences(labels, b)
            /\ Len(rt_result'.value) = Occurrences(labels, "video")
            /\ \A i \in DOMAIN rt_result'.value :
                rt_result'.value[i] = RESOURCE_TYPE_MAP["video"]

C2_UnknownReportedOnce == []C2_UnknownState /\ [][C2_UnknownStep]_vars

\* C2 witness: an unknown value occurs again in a later call, after it was reported
C2_Witness ==
    /\ RtReturned
    /\ Occurrences(LabelsOf(rt_attributes), "quiz") = 1
    /\ Occurrences(LabelsOf(rt_attributes), "video") = 1
    /\ CounterGet(unknown_resource_type, "quiz") = 2
    /\ CountIn(diag, ResourceTypeLine("quiz")) = 1

----------------------------------------------------------------------------
(* Inputs of the license normalizer *)

RECURSIVE LetterCount(_)
LetterCount(s) ==
    IF s = "" THEN 0
    ELSE (IF CharAt(s, 1) \in DOMAIN ToLower \cup DOMAIN ToUpper THEN 1 ELSE 0)
            + LetterCount(SubSeq(s, 2, Len(s)))

\* every way of writing s in upper and lower case
RECURSIVE CaseVariants(_)
CaseVariants(s) ==
    IF s = "" THEN {""}
    ELSE {c \o rest : c \in {LowerChar(CharAt(s, 1)), UpperChar(CharAt(s, 1))},
                      rest \in CaseVariants(SubSeq(s, 2, Len(s)))}

\* the spellings of a LICENSES key that differ from it in case and outer whitespace
CaseSpellings(k) ==
    (IF LetterCount(k) <= MaxCaseLetters THEN CaseVariants(k) ELSE {k, upper(k)})
        \cup {" " \o upper(k) \o "\n", "\t" \o k \o " "}

\* the label of a controlled identifier: the local name of the SPDX URI
LicenseLabels == {LICENSES[k].local : k \in DOMAIN LICENSES}

AbsentLicenseTexts == {"notspecified", "NotSpecified", " NOTSPECIFIED\n", "", "  ", "\t"}

\* lowercased, trimmed texts that are no key of LICENSES, and their spellings
UnknownLicenseBases == {"proprietary", "gpl-3.0-or-later"}
UnknownSpellings(b) ==
    {b, " " \o upper(b) \o "\t"} \cup {l \in LicenseLabels : upper(l) = upper(b)}

RawLicenseTexts ==
    UNION {CaseSpellings(k) : k \in DOMAIN LICENSES}
        \cup LicenseLabels
        \cup AbsentLicenseTexts
        \cup UNION {UnknownSpellings(b) : b \in UnknownLicenseBases}

LicenseAttributes ==
    {NoAttributes, [k \in {"licence"} |-> None]}
        \cup {[k \in {"licence"} |-> Str(raw)] : raw \in RawLicenseTexts}

\* get_tess_oers calls _get_license on a material's attributes
GetLicense ==
    /\ ~lic_result.called
    /\ \E attributes \in LicenseAttributes :
        LET r == _get_license(attributes, license_counter, diag)
        IN  /\ CounterWithin(r.counter, MaxCount)
            /\ lic_attributes' = attributes
            /\ lic_result' = r.result
            /\ license_counter' = r.counter
            /\ diag' = r.log
    /\ UNCHANGED <<notTess, unknown_resource_type, rt_attributes, rt_result>>

\* get_tess_oers puts the returned license into the record (or the exception
\* has ended the run's current material) and the next call can follow
TakeLicense ==
    /\ lic_result.called
    /\ lic_attributes' = NoAttributes
    /\ lic_result' = Idle(None)
    /\ UNCHANGED <<notTess, diag, unknown_resource_type, rt_attributes, rt_result,
                   license_counter>>

InitLicense == component = "license" /\ InitTess /\ InitOthers
NextLicense == GetLicense \/ TakeLicense
SpecLicense == InitLicense /\ [][NextLicense]_vars

\* the raw license string of the call that has returned, "" when none has
LicReturned == lic_result.called
HasRawLicense(attributes) ==
    "licence" \in DOMAIN attributes /\ attributes["licence"].kind = "str"
RawLicenseIn(attributes, texts) ==
    HasRawLicense(attributes) /\ attributes["licence"].value \in texts

\* C3: for the raw license string "notspecified", the empty string or a string of
\* whitespace only, _get_license returns None, counts nothing in license_counter
\* and writes no "Missing license" line.
C3_AbsentLicense ==
    /\ (LicReturned /\ RawLicenseIn(lic_attributes, AbsentLicenseTexts))
            => lic_result = Return(None)
    /\ \A t \in {"notspecified", ""} :
        /\ t \notin DOMAIN license_counter
        /\ CountIn(diag, MissingLicenseLine(t)) = 0

\* C4: a raw license string that is neither "notspecified"/empty nor a key of
\* LICENSES once lowercased and trimmed is returned lowercased and trimmed, never
\* as None; every such call adds one to its license_counter entry, and its
\* "Missing license" line is written at its first occurrence only.
UnknownSpellingPairs == {<<raw, b>> : raw \in RawLicenseTexts, b \in UnknownLicenseBases}
                            \cap UNION {UnknownSpellings(b) \X {b} : b \in UnknownLicenseBases}

C4_UnknownState ==
    /\ \A p \in UnknownSpellingPairs :
        (LicReturned /\ RawLicenseIn(lic_attributes, {p[1]}))
            => lic_result = Return(Str(p[2]))
    /\ \A b \in UnknownLicenseBases :
        CountIn(diag, MissingLicenseLine(b)) =
            (IF CounterGet(license_counter, b) > 0 THEN 1 ELSE 0)

C4_UnknownStep ==
    (~LicReturned /\ LicReturned') =>
        /\ IsPrefix(diag, diag')
        /\ \A b \in UnknownLicenseBases :
            CounterGet(license_counter', b) =
                CounterGet(license_counter, b)
                    + (IF \E p \in UnknownSpellingPairs :
                            p[2] = b /\ RawLicenseIn(lic_attributes', {p[1]})
                       THEN 1 ELSE 0)

C4_UnknownLicensePassthrough == []C4_UnknownState /\ [][C4_UnknownStep]_vars

\* C4 witness: an unsupported license text returns a second time, reported once
C4_Witness ==
    /\ LicReturned
    /\ RawLicenseIn(lic_attributes, {" PROPRIETARY\t"})
    /\ lic_result = Return(Str("proprietary"))
    /\ CounterGet(license_counter, "proprietary") = 2
    /\ CountIn(diag, MissingLicenseLine("proprietary")) = 1

\* C5: for every key of LICENSES with identifier I, _get_license applied to the
\* label of I (the local name of the SPDX identifier) returns I.
C5_LabelIdempotent ==
    \A k \in DOMAIN LICENSES :
        (LicReturned /\ RawLicenseIn(lic_attributes, {LICENSES[k].local}))
            => lic_result = Return(LICENSES[k])

\* C6: every spelling of a LICENSES key in upper and lower case, with or without
\* surrounding whitespace, returns the key's controlled identifier; such a call
\* leaves license_counter and the diagnostics as they were, and no key is ever
\* counted or reported as unknown.
CaseSpellingPairs == UNION {CaseSpellings(k) \X {k} : k \in DOMAIN LICENSES}
SupportedSpellings == {p[1] : p \in CaseSpellingPairs}
SupportedSpellingLines == {MissingLicenseLine(t) : t \in SupportedSpellings}

C6_CaseState ==
    /\ \A p \in CaseSpellingPairs :
        (LicReturned /\ RawLicenseIn(lic_attributes, {p[1]}))
            => lic_result = Return(LICENSES[p[2]])
    /\ DOMAIN license_counter \cap SupportedSpellings = {}
    /\ \A i \in DOMAIN diag : diag[i] \notin SupportedSpellingLines

C6_CaseStep ==
    (~LicReturned /\ LicReturned' /\ RawLicenseIn(lic_attributes', SupportedSpellings))
        => (license_counter' = license_counter /\ diag' = diag)

C6_CaseInsensitive == []C6_CaseState /\ [][C6_CaseStep]_vars

\* C6 witness: a mixed-case spelling of "mit" has returned the identifier of "MIT"
C6_Witness ==
    /\ LicReturned
    /\ RawLicenseIn(lic_attributes, {"MiT"})
    /\ lic_result = Return(URIRef("SPDX_LICENSE", "MIT"))
    /\ license_counter # EmptyCounter

----------------------------------------------------------------------------
(* sources/dalia.py: _process_size *)

DIGITS == "0123456789"

RECURSIVE DigitMap(_, _)
DigitMap(digits, n) ==
    IF digits = "" THEN <<>>
    ELSE (CharAt(digits, 1) :> n) @@ DigitMap(SubSeq(digits, 2, Len(digits)), n + 1)

DigitValue == DigitMap(DIGITS, 0)

RECURSIVE Pow10(_)
Pow10(n) == IF n = 0 THEN 1 ELSE 10 * Pow10(n - 1)

\* digits and at most one point, read from the left: mantissa m, d digits after the
\* point, n digits in all; ok is FALSE when another character or a second point appears
RECURSIVE ScanDecimal(_, _)
ScanDecimal(s, acc) ==
    IF s = "" THEN acc
    ELSE LET c == CharAt(s, 1)
             rest == SubSeq(s, 2, Len(s))
         IN  IF c \in DOMAIN DigitValue
             THEN ScanDecimal(rest, [acc EXCEPT !.m = 10 * acc.m + DigitValue[c],
                                                !.d = IF acc.point THEN acc.d + 1 ELSE 0,
                                                !.n = acc.n + 1])
             ELSE IF c = "." /\ ~acc.point
             THEN ScanDecimal(rest, [acc EXCEPT !.point = TRUE])
             ELSE [acc EXCEPT !.ok = FALSE]

\* float(text) for a plain decimal: optional surrounding whitespace, an optional
\* sign, digits with an optional point.  The value is sign * m / 10^d, kept exact.
ParseFloat(text) ==
    LET t == strip(text)
        signed == t # "" /\ CharAt(t, 1) \in {"+", "-"}
        body == IF signed THEN SubSeq(t, 2, Len(t)) ELSE t
        scan == ScanDecimal(body, [ok |-> TRUE, point |-> FALSE, m |-> 0, d |-> 0, n |-> 0])
    IN  IF scan.ok /\ scan.n > 0
        THEN [ok |-> TRUE, neg |-> (signed /\ CharAt(t, 1) = "-"), m |-> scan.m, d |-> scan.d]
        ELSE [ok |-> FALSE, neg |-> FALSE, m |-> 0, d |-> 0]

MILLION == 1000000

\* value * 1_000_000 for value = m / 10^d: whole part, and the fraction rem / den
Scale(m, d) ==
    IF Pow10(d) <= MILLION
    THEN [whole |-> m * (MILLION \div Pow10(d)), rem |-> 0, den |-> 1]
    ELSE LET den == Pow10(d) \div MILLION
         IN  [whole |-> m \div den, rem |-> m % den, den |-> den]

\* int(): the fraction is cut off, towards zero
IntOf(neg, scaled) == IF neg THEN -scaled.whole ELSE scaled.whole

\* round(): to the nearest integer, a tie going to the even one
RoundOf(neg, scaled) ==
    LET up == \/ 2 * scaled.rem > scaled.den
              \/ (2 * scaled.rem = scaled.den /\ scaled.whole % 2 = 1)
        magnitude == IF up THEN scaled.whole + 1 ELSE scaled.whole
    IN  IF neg THEN -magnitude ELSE magnitude

ByteSize(n) == [kind |-> "ByteSize", value |-> n]

\* int(float(...) * 1_000_000)
Bytes(f) == IntOf(f.neg, Scale(f.m, f.d))

SizeSuffix == " MB"

_process_size(x) ==
    IF x = None THEN Return(None)
    ELSE IF ~endswith(x.value, SizeSuffix) THEN Raise("ValueError")
    ELSE LET f == ParseFloat(removesuffix(x.value, SizeSuffix))
         IN  IF ~f.ok THEN Raise("ValueError")     \* float() rejects the text
             ELSE Return(ByteSize(Bytes(f)))

----------------------------------------------------------------------------
(* Inputs of _process_size *)

MaxWhole == 12     \* the largest whole part of a size

\* Digits after the point, with their value.  float() and the product are computed
\* exactly here, so the sizes are the decimals for which the binary double product
\* truncates and rounds as the exact one does; ties of the scaled value are left out.
Fractions ==
    {<<"", 0>>, <<"5", 5>>, <<"25", 25>>, <<"125", 125>>,
     <<"0000004", 4>>, <<"0000007", 7>>, <<"9999996", 9999996>>}

SizeNumbers ==
    {[neg |-> neg, whole |-> w, frac |-> fr] :
        neg \in BOOLEAN, w \in 0..MaxWhole, fr \in Fractions}

NumberText(num) ==
    (IF num.neg THEN "-" ELSE "") \o ToString(num.whole)
        \o (IF num.frac[1] = "" THEN "" ELSE "." \o num.frac[1])

\* the number as sign, mantissa and digits after the point
NumberValue(num) ==
    [neg |-> num.neg,
     m |-> num.whole * Pow10(Len(num.frac[1])) + num.frac[2],
     d |-> Len(num.frac[1])]

OtherSuffixes == {"", "MB", " KB", " GB", " mb", " MB ", " MiB"}
NotNumbers == {"", "abc", "1,5", "1.2.3", "."}

\* <<text, number>> for the texts of the form "<number> MB"
MegabytePairs == {<<NumberText(num) \o SizeSuffix, num>> : num \in SizeNumbers}

SizeTexts ==
    {p[1] : p \in MegabytePairs}
        \cup {NumberText(num) \o suffix : num \in SizeNumbers, suffix \in OtherSuffixes}
        \cup {t \o SizeSuffix : t \in NotNumbers}

SizeInputs == {None} \cup {Str(t) : t \in SizeTexts}

\* _convert calls _process_size on a record's file_size
ProcessSize ==
    /\ ~size_result.called
    /\ \E x \in SizeInputs :
        /\ size_x' = x
        /\ size_result' = _process_size(x)
    /\ UNCHANGED notSize

\* _convert puts the size into the record (or the exception leaves parse)
TakeSize ==
    /\ size_result.called
    /\ size_x' = None
    /\ size_result' = Idle(None)
    /\ UNCHANGED notSize

InitSizeSpec == component = "size" /\ InitTess /\ InitOthers
NextSize == ProcessSize \/ TakeSize
SpecSize == InitSizeSpec /\ [][NextSize]_vars

\* C7: for every text "<number> MB" the returned byte count is
\* round(number * 1_000_000), and for every text that does not end in " MB"
\* _process_size raises instead of returning a value.
C7_SizeRounded ==
    size_result.called =>
        /\ \A p \in MegabytePairs :
            size_x = Str(p[1]) =>
                LET v == NumberValue(p[2])
                IN  size_result = Return(ByteSize(RoundOf(v.neg, Scale(v.m, v.d))))
        /\ (size_x # None /\ ~endswith(size_x.value, SizeSuffix)) => size_result.raised # ""

----------------------------------------------------------------------------
(* sources/dalia.py: RE and _process_author *)

RELATIONS == {"S", "R", "SR", "RS"}

\* RE is compiled at import and applied nowhere in sources/dalia.py.
\* RE.match(text) for RE = ^(?P<name>.*)\s\((?P<relation>S|R|SR|RS)\)$ :
\* "$" also matches before one final newline, "." matches no newline
RECURSIVE HasNewline(_)
HasNewline(s) == s # "" /\ (CharAt(s, 1) = "\n" \/ HasNewline(SubSeq(s, 2, Len(s))))

REMatchAt(t) ==
    {[name |-> SubSeq(t, 1, Len(t) - Len(r) - 3), relation |-> r] : r \in
        {r \in RELATIONS :
            /\ endswith(t, "(" \o r \o ")")
            /\ Len(t) >= Len(r) + 3
            /\ CharAt(t, Len(t) - Len(r) - 2) \in WHITESPACE
            /\ ~HasNewline(SubSeq(t, 1, Len(t) - Len(r) - 3))}}

REMatch(text) ==
    LET found == REMatchAt(text)
                    \cup (IF endswith(text, "\n")
                          THEN REMatchAt(SubSeq(text, 1, Len(text) - 1)) ELSE {})
    IN  IF found = {} THEN [matched |-> FALSE, name |-> text, relation |-> ""]
        ELSE LET m == CHOOSE m \in found : TRUE
             IN  [matched |-> TRUE, name |-> m.name, relation |-> m.relation]

AuthorDIF13(name, orcid) == [type |-> "AuthorDIF13", name |-> name, orcid |-> orcid]
OrganizationDIF13(name, ror, wikidata) ==
    [type |-> "OrganizationDIF13", name |-> name, ror |-> ror, wikidata |-> wikidata]
Author(name, orcid) == [type |-> "Author", name |-> name, orcid |-> orcid]
Organization(name, ror, wikidata) ==
    [type |-> "Organization", name |-> name, ror |-> ror, wikidata |-> wikidata]

_process_author(e) ==
    IF "type" \notin DOMAIN e THEN Raise("TypeError")
    ELSE IF e.type = "AuthorDIF13" THEN Return(Author(e.name, e.orcid))
    ELSE IF e.type = "OrganizationDIF13" THEN Return(Organization(e.name, e.ror, e.wikidata))
    ELSE Raise("TypeError")

----------------------------------------------------------------------------
(* Inputs of _process_author *)

OrganizationNames == {"TU Darmstadt", "NFDI4Chem (Consortium)", "R"}
Markers == {" (S)", " (R)", " (SR)", " (RS)", "\t(RS)"}
NotMarkers == {"", "(S)", " (X)", " (s)", " (S) ", " (SRS)", " S"}

\* <<text, display name, relation>> for the names of the form "Name (marker)"
MarkedNames ==
    {<<n \o " (" \o r \o ")", n, r>> : n \in OrganizationNames, r \in RELATIONS}
        \cup {<<n \o "\t(RS)", n, "RS">> : n \in OrganizationNames}
UnmarkedNames == {n \o x : n \in OrganizationNames, x \in NotMarkers}

Identifiers(sample) == {None, Str(sample)}

AuthorInputs ==
    {OrganizationDIF13(n, ror, wikidata) :
        n \in {p[1] : p \in MarkedNames} \cup UnmarkedNames,
        ror \in Identifiers("05n911h24"), wikidata \in Identifiers("Q310695")}
    \cup {AuthorDIF13(n, orcid) :
        n \in {"Ada Lovelace", "Grace Hopper (S)"},
        orcid \in Identifiers("0000-0002-1825-0097")}
    \cup {Str("TU Darmstadt (S)")}

\* _convert calls _process_author on an entry of a record's authors
ProcessAuthor ==
    /\ ~author_result.called
    /\ \E e \in AuthorInputs :
        /\ author_e' = e
        /\ author_result' = _process_author(e)
    /\ UNCHANGED notAuthor

\* _convert puts the author into the record (or the exception leaves parse)
TakeAuthor ==
    /\ author_result.called
    /\ author_e' = None
    /\ author_result' = Idle(None)
    /\ UNCHANGED notAuthor

InitAuthorSpec == component = "author" /\ InitTess /\ InitOthers
NextAuthor == ProcessAuthor \/ TakeAuthor
SpecAuthor == InitAuthorSpec /\ [][NextAuthor]_vars

IsOrganizationCall ==
    author_result.called /\ "type" \in DOMAIN author_e /\ author_e.type = "OrganizationDIF13"

\* C8: for an organization named "Name (S)", "Name (R)", "Name (SR)" or
\* "Name (RS)" the Organization returned by _process_author has the name without
\* the trailing marker and carries the marker separately; for a name without such
\* a trailing parenthetical the name is unchanged and there is no marker.
C8_MarkerStripped ==
    IsOrganizationCall =>
        LET m == REMatch(author_e.name)
            org == author_result.value
        IN  /\ author_result.raised = ""
            /\ org.name = m.name
            /\ m.matched => ("relation" \in DOMAIN org /\ org.relation = Str(m.relation))
            /\ ~m.matched => ("relation" \in DOMAIN org => org.relation = None)

----------------------------------------------------------------------------
(* sources/dalia.py: _convert, _omni_process_row, parse;                   *)
(* export/tess.py: _from_dalia_dif13                                       *)

EN == "en"

\* a language-tagged text {EN: text}
Tagged(lang, text) == [l \in {lang} |-> text]

\* a list | None value that is a list
ListOf(items) == [kind |-> "list", items |-> items]

\* [_process_author(a) for a in e.authors]: the list, or the first exception
RECURSIVE ProcessAuthors(_)
ProcessAuthors(authors) ==
    IF authors = <<>> THEN Return(<<>>)
    ELSE LET first == _process_author(Head(authors))
             rest == ProcessAuthors(Tail(authors))
         IN  IF first.raised # "" THEN Raise(first.raised)
             ELSE IF rest.raised # "" THEN Raise(rest.raised)
             ELSE Return(<<first.value>> \o rest.value)

\* keyword arguments are evaluated in the order written: authors before file_size
_convert(e) ==
    LET authors == ProcessAuthors(e.authors)
        file_size == _process_size(e.file_size)
    IN  IF authors.raised # "" THEN Raise(authors.raised)
        ELSE IF file_size.raised # "" THEN Raise(file_size.raised)
        ELSE Return([reference |-> [prefix |-> "dalia.oer", identifier |-> e.uuid],
                     external_uri |-> e.links,
                     title |-> Tagged(EN, e.title),
                     description |-> Tagged(EN, e.description),
                     keywords |-> [i \in DOMAIN e.keywords |-> Tagged(EN, e.keywords[i])],
                     authors |-> authors.value,
                     file_size |-> file_size.value,
                     disciplines |-> e.disciplines,
                     copied |-> e.copied])

\* dalia_dif's parse_dif13_row: None when it is unable to read the row, the
\* record otherwise; which, is the reader's answer for the row
parse_dif13_row(row) == row.dif13

_omni_process_row(row) ==
    LET ed13 == parse_dif13_row(row)
    IN  IF ed13 = None THEN Return(None) ELSE _convert(ed13)

\* the list comprehension of parse: the records of the rows in order, without
\* the rows that gave None; an exception of a row leaves parse
RECURSIVE parse(_)
parse(rows) ==
    IF rows = <<>> THEN Return(<<>>)
    ELSE LET oer == _omni_process_row(Head(rows))
         IN  IF oer.raised # "" THEN Raise(oer.raised)
             ELSE LET rest == parse(Tail(rows))
                  IN  IF rest.raised # "" THEN Raise(rest.raised)
                      ELSE IF oer.value = None THEN rest
                      ELSE Return(<<oer.value>> \o rest.value)

\* Topic(preferred_label=get_discipline_label(discipline), uri=str(discipline))
Topic(discipline) == [preferred_label |-> "label of " \o discipline, uri |-> discipline]

Topics(disciplines) == [i \in DOMAIN disciplines |-> Topic(disciplines[i])]

\* "not x" for a str, a list or a dict, or None
Falsy(x) ==
    \/ x.kind = "None"
    \/ (x.kind = "str" /\ x.value = "")
    \/ (x.kind = "list" /\ x.items = <<>>)
    \/ (x.kind = "dict" /\ DOMAIN x.items = {})

\* "x or []"
OrEmpty(x) == IF Falsy(x) THEN <<>> ELSE x.items

FromDaliaDif13NoSkip(oer) ==
    IF oer.links = <<>> THEN Raise("IndexError")
    ELSE Return([slug |-> oer.uuid,
                 title |-> oer.title,
                 url |-> oer.links[1],
                 description |-> oer.description,
                 keywords |-> oer.keywords,
                 scientific_topics |->
                    Topics(OrEmpty(oer.disciplines))])

_from_dalia_dif13(oer) ==
    IF Falsy(oer.description) THEN Return(None)
    ELSE IF oer.links = <<>> THEN Raise("IndexError")     \* oer.links[0]
    ELSE Return([slug |-> oer.uuid,
                 title |-> oer.title,
                 url |-> oer.links[1],
                 description |-> oer.description,
                 keywords |-> oer.keywords,
                 scientific_topics |->
                    Topics(OrEmpty(oer.disciplines))])

----------------------------------------------------------------------------
(* Inputs of the DALIA transforms *)

MaxRows == 3       \* rows of a curation sheet

Descriptions == {None, Str(""), Str("About open science")}
FileSizes == {Str("1.5 MB"), Str("3 KB")}
DisciplineLists == {None, ListOf(<<"https://w3id.org/kim/hochschulfaechersystematik/n44">>)}

\* the record the reader gives for row i of a sheet
Dif13At(i, description, file_size, disciplines) ==
    [uuid |-> "oer-" \o ToString(i),
     title |-> "Resource " \o ToString(i),
     description |-> description,
     links |-> <<"https://example.org/" \o ToString(i)>>,
     keywords |-> <<"open science">>,
     disciplines |-> disciplines,
     authors |-> <<OrganizationDIF13("TU Darmstadt (S)", None, None),
                   AuthorDIF13("Ada Lovelace", None)>>,
     file_size |-> file_size,
     copied |-> "proficiency_levels, languages, license, file_formats, ..."]

Dif13Records(i) ==
    {Dif13At(i, d, Str("1.5 MB"), ds) : d \in Descriptions, ds \in DisciplineLists}

Dif13Batches ==
    UNION {{b \in [1..n -> UNION {Dif13Records(i) : i \in 1..n}] :
                \A i \in 1..n : b[i] \in Dif13Records(i)} : n \in 0..MaxRows}

\* a sheet row with the reader's answer for it
SheetRows(i) ==
    {[line |-> i + 1, dif13 |-> None]}
        \cup {[line |-> i + 1, dif13 |-> Dif13At(i, d, fs, None)] :
                d \in Descriptions, fs \in FileSizes}

Sheets ==
    UNION {{rows \in [1..n -> UNION {SheetRows(i) : i \in 1..n}] :
                \A i \in 1..n : rows[i] \in SheetRows(i)} : n \in 0..MaxRows}

\* _from_dalia_dif13 applied to each record of a sheet, in order
FromDaliaDif13 ==
    /\ ~dif13_results.called /\ ~parse_result.called
    /\ \E oers \in Dif13Batches :
        /\ dif13_oers' = oers
        /\ dif13_results' = Return([i \in DOMAIN oers |-> _from_dalia_dif13(oers[i])])
    /\ UNCHANGED <<notDalia, parse_rows, parse_result>>

TakeFromDaliaDif13 ==
    /\ dif13_results.called
    /\ dif13_oers' = <<>>
    /\ dif13_results' = Idle(<<>>)
    /\ UNCHANGED <<notDalia, parse_rows, parse_result>>

\* get_dalia calls parse on a curation sheet
ParseSheet ==
    /\ ~parse_result.called /\ ~dif13_results.called
    /\ \E rows \in Sheets :
        /\ parse_rows' = rows
        /\ parse_result' = parse(rows)
    /\ UNCHANGED <<notDalia, dif13_oers, dif13_results>>

\* get_dalia takes the list (or the exception ends the run)
TakeParse ==
    /\ parse_result.called
    /\ parse_rows' = <<>>
    /\ parse_result' = Idle(<<>>)
    /\ UNCHANGED <<notDalia, dif13_oers, dif13_results>>

InitDaliaSpec == component = "dalia" /\ InitTess /\ InitOthers
NextDalia == FromDaliaDif13 \/ TakeFromDaliaDif13 \/ ParseSheet \/ TakeParse
SpecDalia == InitDaliaSpec /\ [][NextDalia]_vars

\* helpers of the property
NotNoneResult(r) == r.raised = "" /\ r.value # None
DescribedRecord(oer) == ~Falsy(oer.description)
ReadRow(row) == row.dif13 # None

Slugs(results) == [i \in DOMAIN results |-> results[i].value.slug]
Uuids(oers) == [i \in DOMAIN oers |-> oers[i].uuid]
RowUuids(rows) == [i \in DOMAIN rows |-> rows[i].dif13.uuid]
Identifiers13(records) == [i \in DOMAIN records |-> records[i].reference.identifier]

DescribedRow(row) == ReadRow(row) /\ DescribedRecord(row.dif13)

\* C9 as stated: a curation record without a description is skipped by its
\* transform without raising, by _from_dalia_dif13 and by parse alike, so that N
\* records or rows with exactly one such omission give N-1 outputs, in order.
C9_EveryTransformSkips ==
    /\ dif13_results.called =>
        LET kept == SelectSeq(dif13_results.value, NotNoneResult)
            described == SelectSeq(dif13_oers, DescribedRecord)
        IN  /\ \A i \in DOMAIN dif13_oers : dif13_results.value[i].raised = ""
            /\ Len(described) = Len(dif13_oers) - 1 => Len(kept) = Len(dif13_oers) - 1
            /\ Slugs(kept) = Uuids(described)
    /\ (parse_result.called /\ parse_result.raised = "") =>
        LET described == SelectSeq(parse_rows, DescribedRow)
        IN  /\ Len(described) = Len(parse_rows) - 1
                => Len(parse_result.value) = Len(parse_rows) - 1
            /\ Identifiers13(parse_result.value) = RowUuids(described)

\* C9, amended: _from_dalia_dif13 returns None, without raising, for a record
\* without a description and a learning material for one with a description; so
\* of N records with exactly one such omission N-1 materials remain, in the order
\* of their records.  parse returns, in order, the records of the rows for which
\* parse_dif13_row gave a record, whether described or not: N-1 of N rows when
\* one row is skipped.
C9_SkipWithoutDescription ==
    /\ dif13_results.called =>
        LET results == dif13_results.value
            kept == SelectSeq(results, NotNoneResult)
            described == SelectSeq(dif13_oers, DescribedRecord)
        IN  /\ \A i \in DOMAIN dif13_oers :
                /\ results[i].raised = ""
                /\ Falsy(dif13_oers[i].description) <=> results[i].value = None
            /\ Len(described) = Len(dif13_oers) - 1 => Len(kept) = Len(dif13_oers) - 1
            /\ Slugs(kept) = Uuids(described)
    /\ (parse_result.called /\ parse_result.raised = "") =>
        LET read == SelectSeq(parse_rows, ReadRow)
        IN  /\ Len(read) = Len(parse_rows) - 1 => Len(parse_result.value) = Len(parse_rows) - 1
            /\ Identifiers13(parse_result.value) = RowUuids(read)

\* C9 witness: of three records the second has no description and two materials
\* remain
C9_Witness ==
    /\ dif13_results.called
    /\ Len(dif13_oers) = 3
    /\ dif13_oers[2].description = None
    /\ DescribedRecord(dif13_oers[1]) /\ DescribedRecord(dif13_oers[3])
    /\ Slugs(SelectSeq(dif13_results.value, NotNoneResult)) = <<"oer-1", "oer-3">>

-----------------------------------------------------------------------------
(* export/tess.py: export_tess and main *)

\* a dict[str, str] | None value that is a dict
Dict(items) == [kind |-> "dict", items |-> items]

\* d.get(key)
get(d, key) == IF key \in DOMAIN d.items THEN d.items[key] ELSE None

\* [k[EN] for k in oer.keywords if EN in k] if oer.keywords else None
KeywordTexts(keywords) ==
    IF Falsy(keywords) THEN None
    ELSE LET HasEN(k) == EN \in DOMAIN k
             tagged == SelectSeq(keywords.items, HasEN)
         IN  ListOf([i \in DOMAIN tagged |-> tagged[i][EN]])

\* the LearningMaterial that export_tess builds; its other fields are None
LearningMaterial(title, url, description, keywords, scientific_topics) ==
    [slug |-> None,
     title |-> title,
     url |-> url,
     description |-> description,
     keywords |-> keywords,
     scientific_topics |-> scientific_topics,
     difficulty_level |-> "notspecified"]

export_tess(oer) ==
    LET title == IF Falsy(oer.title) THEN None ELSE get(oer.title, EN)
    IN  IF ~Falsy(oer.description) /\ oer.title = None
        THEN Raise("AttributeError")      \* None.get(EN)
        ELSE LET description ==
                     IF Falsy(oer.description) THEN None ELSE get(oer.title, EN)
             IN  IF Falsy(title) THEN Return(None)
                 ELSE Return(LearningMaterial(title, oer.external_uri, description,
                                              KeywordTexts(oer.keywords),
                                              Topics(oer.disciplines)))

\* functions, before --include-oersi
FUNCTIONS ==
    << [func |-> "get_dalia", mtessx_space |-> "dalia"],
       [func |-> "get_gtn", mtessx_space |-> "kcd"],
       [func |-> "get_oerhub", mtessx_space |-> "oerhub"] >>

OERSI == [func |-> "get_oersi", mtessx_space |-> "oersi"]

\* TeSSClient(key="test" if test else mtessx_space, base_url=base_url)
BASE_URL == "https://test.tesshub.hzdr.de/"
TeSSClient(key) == [key |-> key, base_url |-> BASE_URL]

\* bound: the number of resources a source returns
MaxResources == 2

\* the titles and descriptions of the resources a source returns: an English
\* title, a title in another language only, an empty English title, an empty
\* mapping, no title; an English description, no description
Titles ==
    { Dict(EN :> Str("Title")), Dict("de" :> Str("Titel")), Dict(EN :> Str("")), None }

DescriptionsOf(title) ==
    IF title = Dict(EN :> Str("Title")) \/ title = None
    THEN { Dict(EN :> Str("About")), None }
    ELSE { Dict(EN :> Str("About")) }

Resource(func, i, title, description) ==
    [external_uri |-> "https://example.org/" \o func \o "/" \o ToString(i),
     title |-> title,
     description |-> description,
     keywords |-> ListOf(<< (EN :> "fair"), ("de" :> "offen") >>),
     disciplines |-> << "https://w3id.org/kim/hochschulfaechersystematik/n" \o ToString(i) >>]

ResourcesAt(func, i) ==
    UNION { { Resource(func, i, title, description) : description \in DescriptionsOf(title) } :
            title \in Titles }

\* the lists func() can return
RECURSIVE ListsOf(_, _)
ListsOf(func, n) ==
    IF n = 0 THEN { <<>> }
    ELSE LET shorter == ListsOf(func, n - 1)
         IN  shorter \cup { Append(rs, r) : rs \in { l \in shorter : Len(l) = n - 1 },
                                             r \in ResourcesAt(func, n) }

Results(func) == ListsOf(func, MaxResources)

\* main(test, include_oersi), up to its outer loop
Main(t, include_oersi) ==
    /\ main_pc = "idle"
    /\ test' = t
    /\ functions' = IF include_oersi THEN Append(FUNCTIONS, OERSI) ELSE FUNCTIONS
    /\ fi' = 1
    /\ main_pc' = "functions"
    /\ UNCHANGED <<resources, ri, posted, main_raised>>
    /\ UNCHANGED notExport

\* resources = func()
CallFunc ==
    /\ main_pc = "functions"
    /\ fi <= Len(functions)
    /\ \E rs \in Results(functions[fi].func) : resources' = rs
    /\ ri' = 1
    /\ main_pc' = "resources"
    /\ UNCHANGED <<test, functions, fi, posted, main_raised>>
    /\ UNCHANGED notExport

\* the body of the inner loop, for resources[ri]
UploadResource ==
    /\ main_pc = "resources"
    /\ ri <= Len(resources)
    /\ LET client == TeSSClient(IF test THEN "test" ELSE functions[fi].mtessx_space)
           tess_resource == export_tess(resources[ri])
       IN  IF tess_resource.raised # ""
           THEN /\ main_raised' = tess_resource.raised
                /\ main_pc' = "raised"
                /\ UNCHANGED <<ri, posted>>
           ELSE /\ posted' = IF tess_resource.value # None
                             THEN Append(posted, [client |-> client,
                                                  resource |-> tess_resource.value])
                             ELSE posted
                /\ ri' = ri + 1
                /\ UNCHANGED <<main_pc, main_raised>>
    /\ UNCHANGED <<test, functions, fi, resources>>
    /\ UNCHANGED notExport

\* the inner loop is exhausted: the next (func, mtessx_space)
NextFunction ==
    /\ main_pc = "resources"
    /\ ri > Len(resources)
    /\ fi' = fi + 1
    /\ main_pc' = "functions"
    /\ UNCHANGED <<test, functions, resources, ri, posted, main_raised>>
    /\ UNCHANGED notExport

\* the outer loop is exhausted
MainReturn ==
    /\ main_pc = "functions"
    /\ fi > Len(functions)
    /\ main_pc' = "returned"
    /\ UNCHANGED <<test, functions, fi, resources, ri, posted, main_raised>>
    /\ UNCHANGED notExport

InitExportSpec == component = "export" /\ InitTess /\ InitOthers
NextExport ==
    \/ \E t \in BOOLEAN, include_oersi \in BOOLEAN : Main(t, include_oersi)
    \/ CallFunc
    \/ UploadResource
    \/ NextFunction
    \/ MainReturn
SpecExport == InitExportSpec /\ [][NextExport]_vars

\* helpers of the property
HasEnglishTitle(oer) ==
    /\ oer.title.kind = "dict"
    /\ EN \in DOMAIN oer.title.items
    /\ oer.title.items[EN] # Str("")

AtResource == main_pc = "resources" /\ ri <= Len(resources)

\* C10: export_tess returns None for every resource without an English title (or
\* with an empty one) and the loop issues no client.post for it; every resource
\* with an English title is posted exactly once, in source order: the loop body
\* appends one post of that resource and moves on to the next resource.
C10_TitleRequired ==
    [][AtResource =>
        LET oer == resources[ri]
        IN  IF HasEnglishTitle(oer)
            THEN /\ Len(posted') = Len(posted) + 1
                 /\ SubSeq(posted', 1, Len(posted)) = posted
                 /\ posted'[Len(posted')].resource.url = oer.external_uri
                 /\ posted'[Len(posted')].resource.title = oer.title.items[EN]
                 /\ ri' = ri + 1
            ELSE /\ export_tess(oer) = Return(None)
                 /\ posted' = posted
                 /\ ri' = ri + 1]_vars

-----------------------------------------------------------------------------
(* sources/cli.py: main *)

startswith(s, prefix) == Len(s) >= Len(prefix) /\ SubSeq(s, 1, Len(prefix)) = prefix

removeprefix(s, prefix) ==
    IF startswith(s, prefix) THEN SubSeq(s, Len(prefix) + 1, Len(s)) ELSE s

\* the __name__ of the functions of main, in order
CLI_FUNCTIONS == << "get_all_tess", "get_dalia" >>

OUTPUT_DIR == "output"

\* Path.joinpath
joinpath(d, name) == d \o "/" \o name

\* f"{n:,}"
RECURSIVE Thousands(_)
Thousands(n) ==
    IF n < 1000 THEN ToString(n)
    ELSE LET low == n % 1000
             pad == IF low < 10 THEN "00" ELSE IF low < 100 THEN "0" ELSE ""
         IN  Thousands(n \div 1000) \o "," \o pad \o ToString(low)

NoResourcesLine(k) == "no resources found for " \o k
GotLine(n) == "got " \o Thousands(n) \o " resources"

\* a writer of oerbservatory.model called with a list and a path: the file at the
\* path holds what the writer was given
Write(files, given, path) == (path :> given) @@ files

write_resources_jsonl(files, given, path) == Write(files, given, path)

write_resources_tfidf(files, given, index_path, similarities_path) ==
    Write(Write(files, given, index_path), given, similarities_path)

write_resources_sentence_transformer(files, given, index_path, similarities_path) ==
    Write(Write(files, given, index_path), given, similarities_path)

write_sqlite_fti(files, given, path) == Write(files, given, path)

\* the writes of the loop body of main, lines 42-59, for the list it passes
WritesOfSource(files, given, k) ==
    LET d == joinpath(OUTPUT_DIR, k)
        jsonl == write_resources_jsonl(files, given, joinpath(d, k \o ".jsonl"))
    IN  IF k = "dalia"
        THEN write_sqlite_fti(
                 write_resources_sentence_transformer(
                     write_resources_tfidf(jsonl, given,
                         joinpath(d, k \o "-tfidf-index.tsv"),
                         joinpath(d, k \o "-tfidf-similarities.tsv")),
                     given,
                     joinpath(d, k \o "-transformers-index.tsv"),
                     joinpath(d, k \o "-tranformers-similarities.tsv")),
                 given, joinpath(d, k \o "-sqlite-full-text-index.db"))
        ELSE jsonl

\* bound: the number of records a source of the CLI returns
MaxSpecific == 2

\* the records a source can return, and the lists of them
SourceRecords(f) == { [source |-> f, identifier |-> ToString(i)] : i \in 1..2 }

RECURSIVE SourceLists(_, _)
SourceLists(f, n) ==
    IF n = 0 THEN { <<>> }
    ELSE LET shorter == SourceLists(f, n - 1)
         IN  shorter \cup { Append(l, r) : l \in { x \in shorter : Len(x) = n - 1 },
                                            r \in SourceRecords(f) }

\* main, up to its loop
SourcesMain ==
    /\ cli_pc = "idle"
    /\ cli_resources' = <<>>
    /\ cli_fi' = 1
    /\ cli_pc' = "functions"
    /\ UNCHANGED <<cli_key, specific, written, cli_lines>>
    /\ UNCHANGED notCli

\* key = f.__name__.removeprefix("get_"); specific = f()
CallSource ==
    /\ cli_pc = "functions"
    /\ cli_fi <= Len(CLI_FUNCTIONS)
    /\ cli_key' = removeprefix(CLI_FUNCTIONS[cli_fi], "get_")
    /\ \E l \in SourceLists(CLI_FUNCTIONS[cli_fi], MaxSpecific) : specific' = l
    /\ cli_pc' = "specific"
    /\ UNCHANGED <<cli_fi, cli_resources, written, cli_lines>>
    /\ UNCHANGED notCli

\* if not specific: the line, and continue
NoResources ==
    /\ cli_pc = "specific"
    /\ specific = <<>>
    /\ cli_lines' = Append(cli_lines, NoResourcesLine(cli_key))
    /\ cli_fi' = cli_fi + 1
    /\ cli_pc' = "functions"
    /\ UNCHANGED <<cli_resources, cli_key, specific, written>>
    /\ UNCHANGED notCli

\* the rest of the loop body: the writers are given resources, and then
\* resources.extend(specific)
WriteSource ==
    /\ cli_pc = "specific"
    /\ specific # <<>>
    /\ written' = WritesOfSource(written, cli_resources, cli_key)
    /\ cli_resources' = cli_resources \o specific
    /\ cli_fi' = cli_fi + 1
    /\ cli_pc' = "functions"
    /\ UNCHANGED <<cli_key, specific, cli_lines>>
    /\ UNCHANGED notCli

\* click.echo(f"got {len(resources):,} resources")
Echo ==
    /\ cli_pc = "functions"
    /\ cli_fi > Len(CLI_FUNCTIONS)
    /\ cli_lines' = Append(cli_lines, GotLine(Len(cli_resources)))
    /\ cli_pc' = "returned"
    /\ UNCHANGED <<cli_fi, cli_resources, cli_key, specific, written>>
    /\ UNCHANGED notCli

InitCliSpec == component = "cli" /\ InitTess /\ InitOthers
NextCli == SourcesMain \/ CallSource \/ NoResources \/ WriteSource \/ Echo
SpecCli == InitCliSpec /\ [][NextCli]_vars

\* helpers of the property
FilesUnder(files, d) == { path \in DOMAIN files : startswith(path, d \o "/") }
JsonlOf(k) == joinpath(joinpath(OUTPUT_DIR, k), k \o ".jsonl")

\* C11: a file is written for a source only once f() has returned its whole
\* list; a source with a non-empty list gets its JSONL file (and, for dalia, its
\* index files) under output/<key>/, each holding exactly the list that source
\* returned, and the files of the other sources are left as they were; a source
\* with an empty list writes nothing; resources grows by each source's list, and
\* the count reported at the end is the length of resources.
C11_OwnRecordsWritten ==
    [][/\ written' # written => cli_pc = "specific"
       /\ cli_pc = "specific" =>
            LET d == joinpath(OUTPUT_DIR, cli_key)
                own == FilesUnder(written', d)
            IN  /\ cli_resources' = cli_resources \o specific
                /\ IF specific = <<>>
                   THEN written' = written
                   ELSE /\ JsonlOf(cli_key) \in own
                        /\ cli_key = "dalia" => Cardinality(own) > 1
                        /\ \A path \in own : written'[path] = specific
                        /\ \A path \in DOMAIN written' \ own :
                            path \in DOMAIN written /\ written'[path] = written[path]
       /\ (cli_pc = "functions" /\ cli_fi > Len(CLI_FUNCTIONS)) =>
            cli_lines' = Append(cli_lines, GotLine(Len(cli_resources)))]_vars

-----------------------------------------------------------------------------
(* export/tess.py: the description that export_tess exports *)

\* the resource's English description, None when it has none
EnglishDescription(oer) ==
    IF oer.description.kind = "dict" /\ EN \in DOMAIN oer.description.items
    THEN oer.description.items[EN]
    ELSE None

\* C12: for a resource with an English title the learning material that
\* export_tess returns, and main posts, has the resource's English description
\* as its description, None when the resource has no description, and never its
\* title; and export_tess does not raise on a resource that has a description.
C12_DescriptionExported ==
    [][AtResource =>
        LET oer == resources[ri]
        IN  /\ HasEnglishTitle(oer) =>
                /\ Len(posted') = Len(posted) + 1
                /\ posted'[Len(posted')].resource.description = EnglishDescription(oer)
            /\ ~Falsy(oer.description) =>
                /\ export_tess(oer).raised = ""
                /\ main_raised' = ""]_vars

====
